---- MODULE Spec2Model ----
(***************************************************************************)
(* A model of the SVD animation tools of the repository:                   *)
(*   tools/generate_svd_animation.py  (SVDAnimator, main)                  *)
(*   tools/svd_animation_asset.py     (decode_animation_bytes, main)       *)
(*                                                                         *)
(* Numbers.  The animator works on floats.  The model keeps every value    *)
(* exact: a matrix with rational entries is a record [m, d] standing for   *)
(* the integer matrix m divided by the positive integer d, and alpha is a  *)
(* fraction [n, d].  np.linalg.svd is a library call: the model lets it    *)
(* return any decomposition u, s, vt with u * diag(s) * vt = matrix, drawn *)
(* from the orthogonal matrices with integer entries.                      *)
(***************************************************************************)
EXTENDS Integers, Sequences, FiniteSets, TLC

VARIABLES
    tool,        \* which script runs: "generate" or "asset"
    pc,          \* position of the script
    args,        \* the parsed command line
    animator,    \* the SVDAnimator's fields, NoAnimator before construction
    frame,       \* the next frame FuncAnimation.save hands to update
    cur,         \* what the last current_transform call computed and returned
    drawn,       \* what update left on the axes
    fig_open,    \* the Matplotlib figure is open
    fs,          \* the output path: its directory and the file's content
    data_file,   \* the encoded data file the asset tool reads
    edits,       \* how often the data file's whitespace was edited before the run
    scene_applied, \* the factors SVDGeometricDemo has applied to its geometry
    stdout,      \* lines printed to standard output
    stderr,      \* lines printed to standard error
    exit_code,   \* what main returned, NoCode when it has not returned
    raised,      \* the exception that left main, "none" when there is none
    proc_status  \* the exit status of the process, NoCode while it runs

vars == <<tool, pc, args, animator, frame, cur, drawn, fig_open, fs,
          data_file, edits, scene_applied, stdout, stderr, exit_code, raised,
          proc_status>>

----------------------------------------------------------------------------
(* Bounds of the model *)

MaxSigma == 2

MaxDuration == 7

MaxText == 4

MaxEdits == 1

----------------------------------------------------------------------------
(* 2x2 matrices *)

NoCode == -1

NoAnimator == [total_frames |-> 0]

NoCall == [frame |-> -1]

Mat(a, b, c, d) == <<<<a, b>>, <<c, d>>>>

np_eye2 == Mat(1, 0, 0, 1)

MatMul(A, B) ==
    [i \in 1..2 |-> [j \in 1..2 |-> A[i][1] * B[1][j] + A[i][2] * B[2][j]]]

MatAdd(A, B) == [i \in 1..2 |-> [j \in 1..2 |-> A[i][j] + B[i][j]]]

MatScale(k, A) == [i \in 1..2 |-> [j \in 1..2 |-> k * A[i][j]]]

np_diag(s) == Mat(s[1], 0, 0, s[2])

\* an exact matrix: the integer matrix m over the denominator d
Rat(m, d) == [m |-> m, d |-> d]

RatMatMul(T, B) == Rat(MatMul(T.m, B), T.d)

\* T, an exact matrix, equals the integer matrix X
RatEqInt(T, X) == T.m = MatScale(T.d, X)

\* two exact matrices are equal
RatEq(S, T) == MatScale(T.d, S.m) = MatScale(S.d, T.m)

----------------------------------------------------------------------------
(* np.linalg.svd *)

\* the orthogonal factors of the model: the identity, a quarter turn, and the
\* reflections in the diagonal and in the horizontal axis
Orthogonal == { Mat(1, 0, 0, 1), Mat(0, -1, 1, 0), Mat(0, 1, 1, 0), Mat(1, 0, 0, -1) }

SingularValues == { <<s1, s2>> \in (0..MaxSigma) \X (0..MaxSigma) : s1 >= s2 }

Compose(u, s, vt) == MatMul(MatMul(u, np_diag(s)), vt)

Matrices == { Compose(u, s, vt) : u \in Orthogonal, s \in SingularValues, vt \in Orthogonal }

\* every (u, s, vt) the library may return for matrix
np_linalg_svd(matrix) ==
    { t \in Orthogonal \X SingularValues \X Orthogonal : Compose(t[1], t[2], t[3]) = matrix }

----------------------------------------------------------------------------
(* SVDAnimator *)

Max(a, b) == IF a >= b THEN a ELSE b

Min(a, b) == IF a <= b THEN a ELSE b

\* math.ceil(a / b) for a >= 0, b > 0
math_ceil_div(a, b) == IF a % b = 0 THEN a \div b ELSE a \div b + 1

\* the list of phases written in the order of the product U * Sigma * V^T
phases_reversed(u, s, vt) ==
    << [label |-> "Rotate with $U$", matrix |-> u],
       [label |-> "Scale by $Sigma$", matrix |-> np_diag(s)],
       [label |-> "Apply $V^T$", matrix |-> vt] >>

\* lines 106-110: self.phases
phases_of(u, s, vt) ==
    << [label |-> "Apply $V^T$", matrix |-> vt],
       [label |-> "Scale by $Sigma$", matrix |-> np_diag(s)],
       [label |-> "Rotate with $U$", matrix |-> u] >>

\* integer division in place of math.ceil
frames_per_phase_floor(total_frames, n_phases) == Max(1, total_frames \div n_phases)

\* line 112: max(1, math.ceil(total_frames / len(self.phases)))
frames_per_phase(total_frames, n_phases) == Max(1, math_ceil_div(total_frames, n_phases))

\* prepare_shapes: the basis vectors, one per row
Basis == Mat(1, 0, 0, 1)

\* prepare_shapes: the samples of the unit circle at the quarter turns
Circle == << <<1, 0>>, <<0, 1>>, <<-1, 0>>, <<0, -1>> >>

\* prepare_shapes: the ends and the middle of np.linspace(-2, 2, 9)
GridRange == << -2, 0, 2 >>

\* prepare_shapes: for each value a vertical and then a horizontal line
GridLines ==
    [ n \in 1..(2 * Len(GridRange)) |->
        LET value == GridRange[(n + 1) \div 2]
        IN  IF n % 2 = 1
            THEN [ k \in DOMAIN GridRange |-> << value, GridRange[k] >> ]
            ELSE [ k \in DOMAIN GridRange |-> << GridRange[k], value >> ] ]

\* lines 101-112; svd keeps the constructor's locals u, singular_values, vt
SVDAnimator_init(matrix, total_frames, t) ==
    [ matrix           |-> matrix,
      total_frames     |-> total_frames,
      svd              |-> [u |-> t[1], s |-> t[2], vt |-> t[3]],
      circle           |-> Circle,
      grid_lines       |-> GridLines,
      basis            |-> Basis,
      phases           |-> phases_of(t[1], t[2], t[3]),
      frames_per_phase |-> frames_per_phase(total_frames, 3),
      phase_labels     |-> <<>> ]

\* the blend without its (1 - alpha) * np.eye(2) term
interpolate_no_identity(current, target, alpha) ==
    Rat(MatMul(current.m, MatScale(alpha.n, target)), current.d * alpha.d)

\* current @ ((1 - alpha) * np.eye(2) + alpha * target)
interpolate(current, target, alpha) ==
    Rat(MatMul(current.m,
               MatAdd(MatScale(alpha.d - alpha.n, np_eye2), MatScale(alpha.n, target))),
        current.d * alpha.d)

\* the remainder in place of the quotient
phase_index_mod(self, f) == Min(f % self.frames_per_phase, Len(self.phases) - 1)

\* line 167
phase_index_of(self, f) == Min(f \div self.frames_per_phase, Len(self.phases) - 1)

\* alpha without the override of the final frame
alpha_no_override(self, f) ==
    [n |-> f % self.frames_per_phase, d |-> self.frames_per_phase]

\* lines 168-170
alpha_of(self, f) ==
    IF f = self.total_frames - 1
    THEN [n |-> 1, d |-> 1]
    ELSE [n |-> f % self.frames_per_phase, d |-> self.frames_per_phase]

\* the for loop of current_transform, from position index (0-based) on
RECURSIVE phase_loop(_, _, _, _, _)
phase_loop(phases, index, phase_index, alpha, transform) ==
    IF index >= Len(phases)
    THEN transform
    ELSE IF index < phase_index
    THEN phase_loop(phases, index + 1, phase_index, alpha,
                    RatMatMul(transform, phases[index + 1].matrix))
    ELSE IF index = phase_index
    THEN interpolate(transform, phases[index + 1].matrix, alpha)
    ELSE phase_loop(phases, index + 1, phase_index, alpha, transform)

\* lines 166-180: the locals phase_index and alpha, and the returned pair
current_transform(self, f) ==
    LET phase_index == phase_index_of(self, f)
        alpha == alpha_of(self, f)
    IN  [ frame       |-> f,
          phase_index |-> phase_index,
          alpha       |-> alpha,
          transform   |-> phase_loop(self.phases, 0, phase_index, alpha, Rat(np_eye2, 1)),
          label       |-> self.phases[phase_index + 1].label ]

\* points @ transform.T, one point per row
apply_transform(points, transform) ==
    Rat([k \in DOMAIN points |->
            << points[k][1] * transform.m[1][1] + points[k][2] * transform.m[1][2],
               points[k][1] * transform.m[2][1] + points[k][2] * transform.m[2][2] >>],
        transform.d)

\* ax.arrow(0, 0, x, y): an arrow artist, its vector kept exact
Arrow(x, y, d) == [x |-> x, y |-> y, d |-> d]

\* lines 126-144: the artists as __init__ leaves them: no data in the circle
\* and grid lines, two arrows of length zero on the axes, both of them in
\* basis_artists, an empty phase text
NoDrawing ==
    [ label         |-> "",
      basis         |-> Rat(Mat(0, 0, 0, 0), 1),
      circle        |-> Rat(<<>>, 1),
      grid          |-> [n \in DOMAIN GridLines |-> Rat(<<>>, 1)],
      arrows        |-> << Arrow(0, 0, 1), Arrow(0, 0, 1) >>,
      basis_artists |-> 2 ]

\* update that leaves the old arrows on the axes
update_artists_keep_arrows(self, artists, f) ==
    LET r == current_transform(self, f)
        transformed_basis == apply_transform(self.basis, r.transform)
    IN  [ self  |-> self,
          cur   |-> r,
          drawn |-> [ label  |-> r.label,
                      basis  |-> transformed_basis,
                      circle |-> apply_transform(self.circle, r.transform),
                      grid   |-> [n \in DOMAIN self.grid_lines |->
                                    apply_transform(self.grid_lines[n], r.transform)],
                      arrows |-> artists.arrows \o
                                    [k \in 1..2 |->
                                        Arrow(transformed_basis.m[k][1],
                                              transformed_basis.m[k][2],
                                              transformed_basis.d)],
                      basis_artists |-> 2 ] ]

\* lines 185-218: update(frame).  The axes keep their arrows in the order they
\* were added, and basis_artists holds the last ones added: the loop over
\* zip(self.basis_artists, transformed_basis) removes as many of them as
\* there are rows of transformed_basis, then two new arrows are added.
update_artists(self, artists, f) ==
    LET r == current_transform(self, f)
        transformed_basis == apply_transform(self.basis, r.transform)
        removed == Min(artists.basis_artists, Len(transformed_basis.m))
        kept == SubSeq(artists.arrows, 1, Len(artists.arrows) - removed)
    IN  [ self  |-> self,
          cur   |-> r,
          drawn |-> [ label  |-> r.label,
                      basis  |-> transformed_basis,
                      circle |-> apply_transform(self.circle, r.transform),
                      grid   |-> [n \in DOMAIN self.grid_lines |->
                                    apply_transform(self.grid_lines[n], r.transform)],
                      arrows |-> kept \o
                                    [k \in 1..2 |->
                                        Arrow(transformed_basis.m[k][1],
                                              transformed_basis.m[k][2],
                                              transformed_basis.d)],
                      basis_artists |-> 2 ] ]

----------------------------------------------------------------------------
(* generate_svd_animation.py: main *)

Suffixes == {".gif", ".mp4"}

FpsChoices == {1, 2}

GenArgs ==
    [ matrix : Matrices, fps : FpsChoices, duration : 0..MaxDuration, suffix : Suffixes ]

SavedLine == [by |-> "[generate_svd_animation]", text |-> "Saved animation to <output>"]

\* f"[generate_svd_animation] {error}"
ErrorLine(error) == [by |-> "[generate_svd_animation]", text |-> error]

EmptyFs == [out_dir |-> FALSE, out_exists |-> FALSE, out_content |-> <<>>]

\* lines 245-253: parse the arguments, build the animator
generate_main_begin ==
    /\ tool = "generate" /\ pc = "start"
    /\ \E t \in np_linalg_svd(args.matrix) :
          animator' = SVDAnimator_init(args.matrix,
                                       Max(1, args.duration * args.fps), t)
    /\ fig_open' = TRUE
    /\ pc' = "animate"
    /\ UNCHANGED <<scene_applied, data_file, edits, tool, args, frame, cur, drawn, fs, stdout, stderr,
                   exit_code, raised, proc_status>>

\* lines 221-229 with select_writer: the writer is chosen, the directory made
animate_begin ==
    /\ tool = "generate" /\ pc = "animate"
    /\ \/ /\ args.suffix = ".gif"
          /\ pc' = "save"
          /\ fs' = [fs EXCEPT !.out_dir = TRUE]
          /\ raised' = raised
       \/ /\ args.suffix # ".gif"
          /\ \/ /\ pc' = "save"
                /\ fs' = [fs EXCEPT !.out_dir = TRUE]
                /\ raised' = raised
             \/ /\ pc' = "except"
                /\ raised' = "RuntimeError"
                /\ fs' = fs
    /\ frame' = 0
    /\ UNCHANGED <<scene_applied, data_file, edits, tool, args, animator, cur, drawn, fig_open, stdout, stderr,
                   exit_code, proc_status>>

\* lines 185-218: update(frame), called by save for frames 0 .. total_frames - 1
update ==
    /\ tool = "generate" /\ pc = "save"
    /\ frame < animator.total_frames
    /\ LET r == update_artists(animator, drawn, frame)
       IN  /\ cur' = r.cur
           /\ drawn' = r.drawn
           /\ animator' = r.self
    /\ frame' = frame + 1
    /\ UNCHANGED <<scene_applied, data_file, edits, tool, pc, args, fig_open, fs, stdout, stderr,
                   exit_code, raised, proc_status>>

\* update(frame) called for any frame of the animation, in any order, on the
\* animator main has built
update_any ==
    /\ tool = "generate" /\ pc = "animate"
    /\ \E f \in 0..(animator.total_frames - 1) :
          LET r == update_artists(animator, drawn, f)
          IN  /\ cur' = r.cur
              /\ drawn' = r.drawn
              /\ animator' = r.self
    /\ UNCHANGED <<scene_applied, data_file, edits, tool, pc, args, frame, fig_open, fs, stdout,
                   stderr, exit_code, raised, proc_status>>

\* line 230: save ends, with the file written or with an error of the writer
save_finish ==
    /\ tool = "generate" /\ pc = "save"
    /\ frame = animator.total_frames
    /\ \/ /\ pc' = "saved"
          /\ fs' = [fs EXCEPT !.out_exists = TRUE, !.out_content = <<"animation">>]
          /\ raised' = raised
       \/ /\ pc' = "except"
          /\ raised' \in {"RuntimeError", "OSError"}
          /\ fs' = fs
    /\ UNCHANGED <<scene_applied, data_file, edits, tool, args, animator, frame, cur, drawn, fig_open, stdout, stderr,
                   exit_code, proc_status>>

\* line 257: print(...) with no file argument writes to standard output
main_error_stream(line) == /\ stdout' = Append(stdout, line)
                           /\ stderr' = stderr

\* lines 256-260: the handler of RuntimeError, and finally
generate_main_except ==
    /\ tool = "generate" /\ pc = "except"
    /\ fig_open' = FALSE
    /\ \/ /\ raised = "RuntimeError"
          /\ main_error_stream(ErrorLine(raised))
          /\ exit_code' = 1
          /\ raised' = "none"
       \/ /\ raised # "RuntimeError"
          /\ UNCHANGED <<stdout, stderr, exit_code, raised>>
    /\ pc' = "returned"
    /\ UNCHANGED <<scene_applied, data_file, edits, tool, args, animator, frame, cur, drawn, fs, proc_status>>

\* lines 259-262: finally, the success message, return 0
generate_main_return ==
    /\ tool = "generate" /\ pc = "saved"
    /\ fig_open' = FALSE
    /\ stdout' = Append(stdout, SavedLine)
    /\ exit_code' = 0
    /\ pc' = "returned"
    /\ UNCHANGED <<scene_applied, data_file, edits, tool, args, animator, frame, cur, drawn, fs, stderr,
                   raised, proc_status>>

\* what the interpreter prints for an exception nobody caught
Traceback(error) == [by |-> "Traceback (most recent call last)", text |-> error]

\* raise SystemExit(main()): the status of the process
script_exit ==
    /\ pc = "returned"
    /\ \/ /\ raised = "none"
          /\ proc_status' = exit_code
          /\ stderr' = stderr
       \/ /\ raised # "none"
          /\ proc_status' = 1
          /\ stderr' = Append(stderr, Traceback(raised))
    /\ pc' = "exited"
    /\ UNCHANGED <<scene_applied, data_file, edits, tool, args, animator, frame, cur, drawn, fig_open, fs, stdout,
                   exit_code, raised>>

----------------------------------------------------------------------------
(* svd_animation_asset.py *)

\* the characters a data file of the model is written with
Whitespace == {" ", "\n"}

Printable == {"V", "{", "|", ","}

Chars == Printable \cup Whitespace

RECURSIVE SeqsUpTo(_, _)
SeqsUpTo(S, n) ==
    IF n = 0 THEN {<<>>}
    ELSE LET shorter == SeqsUpTo(S, n - 1)
         IN  shorter \cup { Append(t, c) : t \in { x \in shorter : Len(x) = n - 1 }, c \in S }

\* str.split() with no separator, from position i on: runs of whitespace
\* separate the tokens, and no token is empty
RECURSIVE split_only_spaces_from(_, _, _, _)
split_only_spaces_from(text, i, token, tokens) ==
    IF i > Len(text)
    THEN IF token = <<>> THEN tokens ELSE Append(tokens, token)
    ELSE IF text[i] = " "
    THEN split_only_spaces_from(text, i + 1, <<>>,
                                IF token = <<>> THEN tokens ELSE Append(tokens, token))
    ELSE split_only_spaces_from(text, i + 1, Append(token, text[i]), tokens)

RECURSIVE split_from(_, _, _, _)
split_from(text, i, token, tokens) ==
    IF i > Len(text)
    THEN IF token = <<>> THEN tokens ELSE Append(tokens, token)
    ELSE IF text[i] \in Whitespace
    THEN split_from(text, i + 1, <<>>,
                    IF token = <<>> THEN tokens ELSE Append(tokens, token))
    ELSE split_from(text, i + 1, Append(token, text[i]), tokens)

str_split_spaces(text) == split_only_spaces_from(text, 1, <<>>, <<>>)

str_split(text) == split_from(text, 1, <<>>, <<>>)

\* "".join(tokens)
RECURSIVE str_join(_)
str_join(tokens) ==
    IF tokens = <<>> THEN <<>> ELSE Head(tokens) \o str_join(Tail(tokens))

\* base64.b85decode: the alphabet, a character's value being its position - 1
\* (the grave accent is written by its name)
B85Alphabet ==
    << "0", "1", "2", "3", "4", "5", "6", "7", "8", "9",
       "A", "B", "C", "D", "E", "F", "G", "H", "I", "J", "K", "L", "M",
       "N", "O", "P", "Q", "R", "S", "T", "U", "V", "W", "X", "Y", "Z",
       "a", "b", "c", "d", "e", "f", "g", "h", "i", "j", "k", "l", "m",
       "n", "o", "p", "q", "r", "s", "t", "u", "v", "w", "x", "y", "z",
       "!", "#", "$", "%", "&", "(", ")", "*", "+", "-", ";", "<", "=",
       ">", "?", "@", "^", "_", "backtick", "{", "|", "}", "~" >>

IsB85(c) == \E k \in DOMAIN B85Alphabet : B85Alphabet[k] = c

B85Value(c) == (CHOOSE k \in DOMAIN B85Alphabet : B85Alphabet[k] = c) - 1

\* acc = acc * 85 + value over the five characters of a chunk; acc is kept as
\* [hi, lo] = hi * 65536 + lo so that no intermediate value leaves 32 bits
RECURSIVE B85Acc(_, _, _)
B85Acc(chunk, i, acc) ==
    IF i > Len(chunk) THEN acc
    ELSE LET lo == acc.lo * 85 + B85Value(chunk[i])
         IN  B85Acc(chunk, i + 1,
                    [hi |-> (acc.hi * 85) + (lo \div 65536), lo |-> lo % 65536])

\* struct.Struct(!I).pack(acc): four bytes, big-endian
PackI(acc) == << acc.hi \div 256, acc.hi % 256, acc.lo \div 256, acc.lo % 256 >>

Failed(error) == [err |-> error, bytes |-> <<>>]

Decoded(bytes) == [err |-> "none", bytes |-> bytes]

RECURSIVE B85Chunks(_, _, _)
B85Chunks(b, i, out) ==
    IF i > Len(b) THEN Decoded(out)
    ELSE LET chunk == SubSeq(b, i, i + 4)
         IN  IF \E j \in 1..5 : ~IsB85(chunk[j])
             THEN Failed("ValueError")
             ELSE LET acc == B85Acc(chunk, 1, [hi |-> 0, lo |-> 0])
                  IN  IF acc.hi >= 65536
                      THEN Failed("ValueError")
                      ELSE B85Chunks(b, i + 5, out \o PackI(acc))

b85decode(packed) ==
    LET padding == (5 - (Len(packed) % 5)) % 5
        padded == packed \o [k \in 1..padding |-> "~"]
        r == B85Chunks(padded, 1, <<>>)
    IN  IF r.err = "none"
        THEN Decoded(SubSeq(r.bytes, 1, Len(r.bytes) - padding))
        ELSE r

\* lzma.decompress is a library routine; the model keeps that it is a fixed
\* partial function of its argument: a stream is accepted when it starts with
\* the first byte of the container's magic number (0xFD), and the bytes after
\* it stand for the payload
LzmaMagic == 253

lzma_decompress(compressed) ==
    IF compressed # <<>> /\ compressed[1] = LzmaMagic
    THEN Decoded(Tail(compressed))
    ELSE Failed("LZMAError")

\* the decoder with split(" ") in place of split()
decode_animation_bytes_split_spaces(file) ==
    IF ~file.exists THEN Failed("FileNotFoundError")
    ELSE LET encoded == str_split_spaces(file.text)
             packed == str_join(encoded)
             compressed == b85decode(packed)
         IN  IF compressed.err # "none" THEN compressed
             ELSE lzma_decompress(compressed.bytes)

\* lines 15-25
decode_animation_bytes(file) ==
    IF ~file.exists THEN Failed("FileNotFoundError")
    ELSE LET encoded == str_split(file.text)
             packed == str_join(encoded)
             compressed == b85decode(packed)
         IN  IF compressed.err # "none" THEN compressed
             ELSE lzma_decompress(compressed.bytes)

\* write_animation that makes the directory before it decodes
write_animation_mkdir_first(files, file) ==
    LET gif_bytes == decode_animation_bytes(file)
    IN  IF gif_bytes.err # "none"
        THEN [err |-> gif_bytes.err, fs |-> [files EXCEPT !.out_dir = TRUE]]
        ELSE [err |-> "none",
              fs  |-> [out_dir |-> TRUE, out_exists |-> TRUE, out_content |-> gif_bytes.bytes]]

\* write_animation: decode, make the directory, write the file
write_animation(files, file) ==
    LET gif_bytes == decode_animation_bytes(file)
    IN  IF gif_bytes.err # "none"
        THEN [err |-> gif_bytes.err, fs |-> files]
        ELSE [err |-> "none",
              fs  |-> [out_dir |-> TRUE, out_exists |-> TRUE, out_content |-> gif_bytes.bytes]]

DataFiles == { [exists |-> FALSE, text |-> <<>>] }
                \cup { [exists |-> TRUE, text |-> t] : t \in SeqsUpTo(Chars, MaxText) }

AssetArgs == [data |-> "<data>", output |-> "<output>"]

WroteLine == [by |-> "[svd_animation_asset]", text |-> "wrote <output>"]

InsertAt(text, i, c) == SubSeq(text, 1, i) \o <<c>> \o SubSeq(text, i + 1, Len(text))

RemoveAt(text, i) == SubSeq(text, 1, i - 1) \o SubSeq(text, i + 1, Len(text))

AssetUnchanged ==
    UNCHANGED <<tool, pc, args, animator, frame, cur, drawn, fig_open, fs,
                scene_applied, stdout, stderr, exit_code, raised, proc_status>>

\* the data file is reformatted before the tool runs: a whitespace character
\* is put between two characters, at the start or at the end
insert_whitespace ==
    /\ tool = "asset" /\ pc = "start" /\ data_file.exists
    /\ edits < MaxEdits /\ Len(data_file.text) < MaxText
    /\ \E i \in 0..Len(data_file.text), c \in Whitespace :
          data_file' = [data_file EXCEPT !.text = InsertAt(data_file.text, i, c)]
    /\ edits' = edits + 1
    /\ AssetUnchanged

\* a whitespace character of the data file is taken out
remove_whitespace ==
    /\ tool = "asset" /\ pc = "start" /\ data_file.exists
    /\ edits < MaxEdits
    /\ \E i \in 1..Len(data_file.text) :
          /\ data_file.text[i] \in Whitespace
          /\ data_file' = [data_file EXCEPT !.text = RemoveAt(data_file.text, i)]
    /\ edits' = edits + 1
    /\ AssetUnchanged

\* a whitespace character of the data file becomes another one
change_whitespace ==
    /\ tool = "asset" /\ pc = "start" /\ data_file.exists
    /\ edits < MaxEdits
    /\ \E i \in 1..Len(data_file.text), c \in Whitespace :
          /\ data_file.text[i] \in Whitespace
          /\ c # data_file.text[i]
          /\ data_file' = [data_file EXCEPT !.text[i] = c]
    /\ edits' = edits + 1
    /\ AssetUnchanged

\* a main that catches the error, prints it and returns 1
asset_main_catching ==
    /\ tool = "asset" /\ pc = "start"
    /\ LET r == write_animation(fs, data_file)
       IN  /\ fs' = r.fs
           /\ \/ /\ r.err = "none"
                 /\ stdout' = Append(stdout, WroteLine)
                 /\ exit_code' = 0
              \/ /\ r.err # "none"
                 /\ stdout' = Append(stdout, [by |-> "[svd_animation_asset]", text |-> r.err])
                 /\ exit_code' = 1
    /\ pc' = "returned"
    /\ UNCHANGED <<tool, args, animator, frame, cur, drawn, fig_open, data_file, edits,
                   scene_applied,
                   stderr, raised, proc_status>>

\* lines 65-70: main of the asset tool, with write_animation
asset_main ==
    /\ tool = "asset" /\ pc = "start"
    /\ LET r == write_animation(fs, data_file)
       IN  /\ fs' = r.fs
           /\ \/ /\ r.err = "none"
                 /\ stdout' = Append(stdout, WroteLine)
                 /\ exit_code' = 0
                 /\ raised' = raised
              \/ /\ r.err # "none"
                 /\ raised' = r.err
                 /\ UNCHANGED <<stdout, exit_code>>
    /\ pc' = "returned"
    /\ UNCHANGED <<tool, args, animator, frame, cur, drawn, fig_open, data_file, edits,
                   scene_applied,
                   stderr, proc_status>>

----------------------------------------------------------------------------
(* svd_concept.py: SVDGeometricDemo.construct, the three ApplyMatrix plays *)

SceneArgs == [scene |-> "SVDGeometricDemo"]

SceneUnchanged ==
    UNCHANGED <<tool, args, animator, frame, cur, drawn, fig_open, fs, data_file,
                edits, stdout, stderr, exit_code, raised, proc_status>>

\* lines 200-203: self.play(ApplyMatrix(vt_matrix, transform_group))
scene_apply_vt ==
    /\ tool = "scene" /\ pc = "start"
    /\ scene_applied' = Append(scene_applied, "vt_matrix")
    /\ pc' = "sigma"
    /\ SceneUnchanged

\* lines 205-212: self.play(ApplyMatrix(sigma_matrix, transform_group))
scene_apply_sigma ==
    /\ tool = "scene" /\ pc = "sigma"
    /\ scene_applied' = Append(scene_applied, "sigma_matrix")
    /\ pc' = "u"
    /\ SceneUnchanged

\* lines 214-221: self.play(ApplyMatrix(u_matrix, transform_group))
scene_apply_u ==
    /\ tool = "scene" /\ pc = "u"
    /\ scene_applied' = Append(scene_applied, "u_matrix")
    /\ pc' = "scene_done"
    /\ SceneUnchanged

----------------------------------------------------------------------------

InitCommon ==
    /\ pc = "start"
    /\ animator = NoAnimator
    /\ frame = 0
    /\ cur = NoCall
    /\ drawn = NoDrawing
    /\ fig_open = FALSE
    /\ fs = EmptyFs
    /\ edits = 0
    /\ scene_applied = <<>>
    /\ stdout = <<>>
    /\ stderr = <<>>
    /\ exit_code = NoCode
    /\ raised = "none"
    /\ proc_status = NoCode

NoDataFile == [exists |-> FALSE, text |-> <<>>]

Init ==
    /\ \/ /\ tool = "generate"
          /\ args \in GenArgs
          /\ data_file = NoDataFile
       \/ /\ tool = "asset"
          /\ args = AssetArgs
          /\ data_file \in DataFiles
       \/ /\ tool = "scene"
          /\ args = SceneArgs
          /\ data_file = NoDataFile
    /\ InitCommon

Next ==
    \/ generate_main_begin
    \/ animate_begin
    \/ update
    \/ save_finish
    \/ generate_main_except
    \/ generate_main_return
    \/ insert_whitespace
    \/ remove_whitespace
    \/ change_whitespace
    \/ asset_main
    \/ script_exit
    \/ scene_apply_vt
    \/ scene_apply_sigma
    \/ scene_apply_u

Spec == Init /\ [][Next]_vars

\* the bytes of an output file left by an earlier run: "GIF"
OldBytes == << 71, 73, 70 >>

\* the output path before the asset tool runs: nothing there, the directory
\* alone, or the directory with an older file
AssetFs ==
    { EmptyFs,
      [out_dir |-> TRUE, out_exists |-> FALSE, out_content |-> <<>>],
      [out_dir |-> TRUE, out_exists |-> TRUE, out_content |-> OldBytes] }

\* the asset tool started with any of these output paths
InitAsset ==
    /\ tool = "asset"
    /\ args = AssetArgs
    /\ data_file \in DataFiles
    /\ fs \in AssetFs
    /\ pc = "start"
    /\ animator = NoAnimator
    /\ frame = 0
    /\ cur = NoCall
    /\ drawn = NoDrawing
    /\ fig_open = FALSE
    /\ edits = 0
    /\ scene_applied = <<>>
    /\ stdout = <<>>
    /\ stderr = <<>>
    /\ exit_code = NoCode
    /\ raised = "none"
    /\ proc_status = NoCode

NextAsset ==
    \/ insert_whitespace
    \/ remove_whitespace
    \/ change_whitespace
    \/ asset_main
    \/ script_exit

SpecAsset == InitAsset /\ [][NextAsset]_vars

\* the animator built by main for a GIF at one frame per second, its update
\* called in any order
InitGenerate == Init /\ tool = "generate" /\ args.fps = 1 /\ args.suffix = ".gif"

NextAnyOrder ==
    \/ generate_main_begin
    \/ update_any

SpecAnyOrder == InitGenerate /\ [][NextAnyOrder]_vars

----------------------------------------------------------------------------
(* Properties of the phase-interpolation stepper *)

\* a current_transform call has been made for the animator
Called == tool = "generate" /\ cur.frame >= 0

LastFrameCalled == Called /\ cur.frame = animator.total_frames - 1

PhaseMatrix(k) == animator.phases[k + 1].matrix

\* the product of the three phase matrices, in the order of the loop
FullProduct == MatMul(MatMul(PhaseMatrix(0), PhaseMatrix(1)), PhaseMatrix(2))

AlphaIsOne(a) == a.n = a.d

\* C1: for every total_frames >= 1, current_transform(total_frames - 1) has
\* phase index 2 and alpha 1.0 and returns the complete product of the three
\* phase matrices in order (V^T, then Sigma, then U).
C1_LastFrameComplete ==
    LastFrameCalled =>
        /\ cur.phase_index = 2
        /\ AlphaIsOne(cur.alpha)
        /\ RatEqInt(cur.transform, FullProduct)

\* the image of the points (one per row) under the matrix M
ImageUnder(M, points) ==
    [k \in DOMAIN points |->
        << M[1][1] * points[k][1] + M[1][2] * points[k][2],
           M[2][1] * points[k][1] + M[2][2] * points[k][2] >>]

\* C2: the transform of the last frame equals U * Sigma * V^T, the matrix M
\* itself, and the geometry drawn on the last frame is the image of the
\* original points under M.  (Stated for the last frames that reach the
\* third phase, where all of V^T, Sigma and U have been multiplied in.)
C2_LastFrameIsMatrix ==
    (LastFrameCalled /\ cur.phase_index = 2) =>
        /\ RatEqInt(cur.transform,
                    Compose(animator.svd.u, animator.svd.s, animator.svd.vt))
        /\ RatEqInt(cur.transform, animator.matrix)
        /\ drawn.basis.m
              = ImageUnder(MatScale(drawn.basis.d, animator.matrix), animator.basis)

\* C3 as stated: for every total_frames >= 1 and every matrix,
\* current_transform(0) returns the 2x2 identity matrix.
C3_FrameZeroIdentity ==
    (Called /\ cur.frame = 0) => RatEqInt(cur.transform, np_eye2)

\* C3, amended: for every total_frames >= 2 and every matrix,
\* current_transform(0) returns the 2x2 identity matrix.
C3_FrameZeroIdentityAmended ==
    (Called /\ cur.frame = 0 /\ animator.total_frames >= 2)
        => RatEqInt(cur.transform, np_eye2)

C3_Witness ==
    /\ Called /\ cur.frame = 0 /\ animator.total_frames >= 2
    /\ animator.matrix # np_eye2
    /\ animator.svd.vt # np_eye2
    /\ RatEqInt(cur.transform, np_eye2)

\* C4: when total_frames is 1, frames_per_phase is 1 and frame 0 takes the
\* final-frame override and yields the fully composed transform of all three
\* phases, equal to M.
C4_SingleFrame ==
    (Called /\ animator.total_frames = 1) =>
        /\ animator.frames_per_phase = 1
        /\ cur.frame = 0
        /\ AlphaIsOne(cur.alpha)
        /\ RatEqInt(cur.transform, FullProduct)
        /\ RatEqInt(cur.transform, animator.matrix)

\* the product of the first k phase matrices
Prefix(k) ==
    IF k = 0 THEN np_eye2
    ELSE IF k = 1 THEN PhaseMatrix(0)
    ELSE MatMul(PhaseMatrix(0), PhaseMatrix(1))

\* the product of the first k factors of the decomposition: V^T, then Sigma
SvdPrefix(k) ==
    IF k = 1 THEN animator.svd.vt
    ELSE MatMul(animator.svd.vt, np_diag(animator.svd.s))

\* C5: at a frame f = k * F with k in {1, 2} that is not the last frame,
\* phase_index is k, alpha is 0.0 and the transform is exactly the product of
\* the first k phase matrices (V^T for k = 1), with nothing of the later ones.
C5_PhaseStart ==
    \A k \in {1, 2} :
        (Called /\ cur.frame = k * animator.frames_per_phase
                /\ cur.frame < animator.total_frames - 1)
            => /\ cur.phase_index = k
               /\ cur.alpha.n = 0
               /\ RatEqInt(cur.transform, SvdPrefix(k))
               /\ RatEqInt(cur.transform, Prefix(k))

C5_Witness ==
    /\ Called
    /\ cur.frame = 2 * animator.frames_per_phase
    /\ cur.frame < animator.total_frames - 1
    /\ animator.frames_per_phase >= 2
    /\ animator.svd.s[1] # animator.svd.s[2]
    /\ animator.svd.u # np_eye2
    /\ animator.svd.vt # np_eye2
    /\ cur.phase_index = 2
    /\ RatEqInt(cur.transform, MatMul(animator.svd.vt, np_diag(animator.svd.s)))

\* ceil(n / 3): the least integer whose triple is at least n
CeilThird(n) == CHOOSE c \in 0..n : 3 * c >= n /\ \A b \in 0..n : 3 * b >= n => c <= b

\* C6: for every frame f of 0 .. total_frames - 1, F = ceil(total_frames / 3),
\* phase_index = min(f div F, 2), alpha = (f mod F) / F (1.0 on the last
\* frame), and the transform is the product of the phase matrices below
\* phase_index, in increasing order, times (1 - alpha) * I + alpha * phase.
C6_TransformFormula ==
    Called =>
        LET f == cur.frame
            F == CeilThird(animator.total_frames)
            k == IF f \div F < 2 THEN f \div F ELSE 2
            an == IF f = animator.total_frames - 1 THEN 1 ELSE f % F
            ad == IF f = animator.total_frames - 1 THEN 1 ELSE F
            blend == MatAdd(MatScale(ad - an, np_eye2), MatScale(an, PhaseMatrix(k)))
        IN  /\ f < animator.total_frames
            /\ animator.frames_per_phase = F
            /\ cur.phase_index = k
            /\ cur.alpha.n * ad = an * cur.alpha.d
            /\ RatEq(cur.transform, Rat(MatMul(Prefix(k), blend), ad))

C6_Witness ==
    /\ Called
    /\ cur.phase_index = 1
    /\ cur.alpha.n > 0 /\ cur.alpha.n < cur.alpha.d
    /\ cur.frame < animator.total_frames - 1
    /\ animator.total_frames % 3 # 0
    /\ animator.svd.s[1] # animator.svd.s[2]
    /\ animator.svd.vt # np_eye2
    /\ ~RatEqInt(cur.transform, Prefix(1))
    /\ ~RatEqInt(cur.transform, Prefix(2))

----------------------------------------------------------------------------
(* Properties of the order of the phases *)

OrderedLabels == << "Apply $V^T$", "Scale by $Sigma$", "Rotate with $U$" >>

\* the factor of the decomposition that belongs to phase k
Factor(self, k) ==
    IF k = 0 THEN self.svd.vt
    ELSE IF k = 1 THEN np_diag(self.svd.s)
    ELSE self.svd.u

\* C7: over the frames 0, 1, ..., total_frames - 1 the phases come in the
\* order realign (V^T), scale (Sigma), rotate (U): the phase index and the
\* label start at phase 0, never decrease from a frame to the next, never
\* skip a phase, and each index carries the label and the matrix of its place.
C7_PhaseOrder ==
    /\ [][ (tool = "generate" /\ cur'.frame # cur.frame) =>
            /\ cur'.frame = cur.frame + 1
            /\ IF cur.frame < 0
               THEN cur'.phase_index = 0
               ELSE cur'.phase_index \in {cur.phase_index, cur.phase_index + 1}
            /\ cur'.label = OrderedLabels[cur'.phase_index + 1]
            /\ animator.phases[cur'.phase_index + 1].label = cur'.label
            /\ animator.phases[cur'.phase_index + 1].matrix
                  = Factor(animator, cur'.phase_index) ]_vars
    /\ [][ (tool = "scene" /\ scene_applied' # scene_applied) =>
               scene_applied'
                  = SubSeq(<< "vt_matrix", "sigma_matrix", "u_matrix" >>,
                           1, Len(scene_applied) + 1) ]_vars

C7_Witness ==
    /\ Called
    /\ cur.frame >= 4
    /\ cur.phase_index = 2
    /\ cur.label = "Rotate with $U$"
    /\ animator.svd.u # animator.svd.vt
    /\ animator.svd.u # np_diag(animator.svd.s)

----------------------------------------------------------------------------
(* Properties of the exit codes and the messages *)

Printed(line, stream) == \E i \in DOMAIN stream : stream[i] = line

\* C8: main of the generation tool returns 0 when the animation is saved,
\* and returns 1 when animate raises a runtime error; then a diagnostic line
\* is printed to the error stream and the success message is not printed.
C8_ExitCodes ==
    [][ tool = "generate" =>
            /\ pc = "saved" => exit_code' = 0
            /\ (pc = "except" /\ raised = "RuntimeError") =>
                  /\ exit_code' = 1
                  /\ \E i \in DOMAIN stderr' : stderr'[i].by = "[generate_svd_animation]"
                  /\ ~Printed(SavedLine, stdout') ]_vars

AssetRan == tool = "asset" /\ pc \in {"returned", "exited"}

\* C9 as stated: when the data file does not exist, the error is surfaced as
\* a printed message plus a non-zero exit code from the tool's main, with no
\* retry.
C9_MissingFileExitCode ==
    (AssetRan /\ ~data_file.exists) =>
        /\ exit_code \notin {NoCode, 0}
        /\ stdout \o stderr # <<>>
        /\ ~ENABLED asset_main

\* C9, amended: when the data file does not exist, FileNotFoundError leaves
\* main uncaught: main returns no exit code, prints nothing and writes
\* nothing, and is not run again; run as a script, the interpreter prints the
\* traceback to standard error and the process ends with status 1.
C9_MissingFileRaises ==
    (AssetRan /\ ~data_file.exists) =>
        /\ raised = "FileNotFoundError"
        /\ exit_code = NoCode
        /\ stdout = <<>>
        /\ fs = EmptyFs
        /\ ~ENABLED asset_main
        /\ pc = "returned" => stderr = <<>> /\ proc_status = NoCode
        /\ pc = "exited" =>
              /\ stderr = << Traceback("FileNotFoundError") >>
              /\ proc_status = 1

C9_Witness ==
    /\ tool = "asset" /\ pc = "exited"
    /\ ~data_file.exists
    /\ proc_status = 1
    /\ raised = "FileNotFoundError"

----------------------------------------------------------------------------
(* Properties of the decoder *)

\* C10: the result of decode_animation_bytes is unchanged by inserting,
\* removing or changing whitespace anywhere between the encoded characters of
\* the data file, at its start or at its end.
C10_WhitespaceInsensitive ==
    [][ (tool = "asset" /\ data_file' # data_file) =>
            decode_animation_bytes(data_file') = decode_animation_bytes(data_file) ]_vars

\* an edited file with whitespace between its encoded characters was decoded
\* and written
C10_Witness ==
    /\ tool = "asset" /\ pc = "returned"
    /\ edits >= 1
    /\ exit_code = 0
    /\ fs.out_content # <<>>
    /\ \E i \in 2..(Len(data_file.text) - 1) :
          /\ data_file.text[i] \in Whitespace
          /\ data_file.text[i - 1] \notin Whitespace
          /\ data_file.text[i + 1] \notin Whitespace

----------------------------------------------------------------------------
(* Properties of update *)

\* the arrow update draws for row k of the transformed basis
BasisArrow(k) == Arrow(drawn.basis.m[k][1], drawn.basis.m[k][2], drawn.basis.d)

\* C11: after any sequence of update(f) calls in any order, the drawn state
\* (circle data, grid line data, basis arrows, phase label) is what update of
\* the last frame alone produces, the axes hold exactly two basis arrows, and
\* no field of the animator (phases, frames_per_phase, total_frames) changed.
C11_FramesIndependent ==
    Called =>
        /\ drawn = update_artists(animator, NoDrawing, cur.frame).drawn
        /\ drawn.arrows = << BasisArrow(1), BasisArrow(2) >>
        /\ drawn.basis_artists = 2
        /\ drawn.label = cur.label
        /\ drawn.circle = apply_transform(Circle, cur.transform)
        /\ animator
              = SVDAnimator_init(args.matrix, Max(1, args.duration * args.fps),
                                 << animator.svd.u, animator.svd.s, animator.svd.vt >>)
        /\ animator.phase_labels = <<>>

\* a frame drawn after a later one was drawn: the arrows of the later frame
\* are gone
C11_Witness ==
    /\ Called /\ pc = "animate"
    /\ cur.frame = 1
    /\ animator.total_frames >= 5
    /\ cur.alpha.n > 0
    /\ animator.svd.vt # np_eye2
    /\ Len(drawn.arrows) = 2
    /\ drawn.arrows[1] # Arrow(0, 0, 1)
    /\ drawn.circle.m # Circle

----------------------------------------------------------------------------
(* Properties of the animation clock *)

\* phase_index + alpha of a call, as the fraction num / den
ProgressNum(c) == c.phase_index * c.alpha.d + c.alpha.n

ProgressDen(c) == c.alpha.d

\* C12: progress, phase_index + alpha, is strictly increasing over the frames
\* 0 .. total_frames - 1 for every total_frames >= 1; between two consecutive
\* frames other than the step into the last frame it grows by exactly 1 / F;
\* alpha is in [0, 1) on every frame except the last, where it is exactly 1.
C12_ProgressIncreases ==
    [][ (tool = "generate" /\ cur'.frame # cur.frame) =>
            /\ IF cur'.frame = animator.total_frames - 1
               THEN cur'.alpha.n = cur'.alpha.d
               ELSE cur'.alpha.n >= 0 /\ cur'.alpha.n < cur'.alpha.d
            /\ cur.frame >= 0 =>
                  /\ ProgressNum(cur') * ProgressDen(cur)
                        > ProgressNum(cur) * ProgressDen(cur')
                  /\ cur'.frame # animator.total_frames - 1 =>
                        (ProgressNum(cur') * ProgressDen(cur)
                            - ProgressNum(cur) * ProgressDen(cur'))
                                * animator.frames_per_phase
                            = ProgressDen(cur) * ProgressDen(cur') ]_vars

\* the last frame of an animation of several frames per phase, reached after
\* the frames before it: progress steps from (total_frames - 2) / F to 3
C12_Witness ==
    /\ Called /\ pc = "save"
    /\ frame = animator.total_frames
    /\ cur.frame = animator.total_frames - 1
    /\ animator.frames_per_phase >= 2
    /\ animator.total_frames % 3 # 0
    /\ cur.phase_index = 2
    /\ cur.alpha.n = cur.alpha.d

----------------------------------------------------------------------------
(* Properties of write_animation *)

\* C13: write_animation touches the file system only after decoding has
\* succeeded: if the data file is missing or its content fails base85 or LZMA
\* decoding, the output directory is not created and the output file is
\* neither created nor modified.
C13_NoWriteOnFailure ==
    [][ (tool = "asset" /\ pc = "start" /\ pc' = "returned") =>
            LET decoded == decode_animation_bytes(data_file)
            IN  /\ raised' = decoded.err
                /\ (~data_file.exists
                        \/ decoded.err \in {"FileNotFoundError", "ValueError", "LZMAError"})
                      => /\ fs' = fs
                         /\ raised' # "none" ]_vars

\* a data file that is valid base85 but no LZMA stream, and an older output
\* file that is still there after the run
C13_Witness ==
    /\ tool = "asset" /\ pc = "returned"
    /\ data_file.exists
    /\ raised = "LZMAError"
    /\ fs.out_exists
    /\ fs.out_content = OldBytes

====
